---------------------------- MODULE Spec2Model ----------------------------
(***************************************************************************)
(* A model of OpenAddressingHashTable<int, V> (OpenAddressingHashTable.h), *)
(* its Bucket (Bucket.h) and its LinearProbing strategy (LinearProbing.h). *)
(*                                                                         *)
(* The program modelled owns a table `a` and, at times, a second table `b` *)
(* made from it by copy or move construction.  Every public operation is   *)
(* an operator from a table (and its arguments) to the table afterwards    *)
(* and what the call returned; an action applies one operation and records *)
(* the call and its result in `last`.                                      *)
(*                                                                         *)
(* Slot indices are 0-based as in the code; buckets[i + 1] is the code's   *)
(* _buckets[i].                                                            *)
(***************************************************************************)
EXTENDS Integers, Sequences, FiniteSets, TLC

VARIABLES a, b, last, halted, AllowDuplicates, expected

vars == <<a, b, last, halted, AllowDuplicates, expected>>

(* ------------------------------ bounds -------------------------------- *)

\* Keys are 1..MaxKey.
MaxKey == 3
\* Mapped values are 0..MaxVal; 0 is the default-constructed mapped_type().
MaxVal == 1
\* No table is given more than MaxCap buckets: an operation that would
\* allocate more is not taken.
MaxCap == 4
\* Initializer lists hold at most MaxList entries.
MaxList == 2

Keys == 1..MaxKey
Values == 0..MaxVal

\* max_load_factor is a float; the model holds it as mlf / MlfDen.  Every
\* threshold used is a multiple of 1/4 and is exact as a float, and
\* size / capacity is compared with it exactly.
MlfDen == 4
\* 0.75f
DefaultMlf == 3
\* The float NaN, which is neither <= 0.0f nor > 1.0f, and of which every
\* comparison is false.  No fraction of the model has this numerator.
NaN == -1
\* Arguments tried for max_load_factor(float): 0, 1/4 .. 5/4 and NaN.
MlfInputs == 0..(MlfDen + 1) \cup {NaN}

NoKey == 0
NoVal == 0

\* static_cast<size_type>(-1): an index that equals no capacity and names
\* no bucket.
NPos == -1

(* ------------------------------ Bucket -------------------------------- *)

\* Bucket(): _state = EMPTY.  The storage is not interpreted unless the
\* state is OCCUPIED, so it is held as NoKey / NoVal otherwise.
Bucket == [state |-> "EMPTY", key |-> NoKey, val |-> NoVal]

\* Bucket::set / make_occupied / emplace: destroy_value, construct, OCCUPIED.
set(key, val) == [state |-> "OCCUPIED", key |-> key, val |-> val]

\* Bucket::clear with a slip: the state is set to DELETED.
clear_to_deleted(bucket) == [state |-> "DELETED", key |-> NoKey, val |-> NoVal]

\* Bucket::clear: destroy_value, EMPTY.
clear_bucket(bucket) == [state |-> "EMPTY", key |-> NoKey, val |-> NoVal]

\* Bucket::make_deleted with a slip: the state is set to EMPTY.
deleted_as_empty(bucket) == [state |-> "EMPTY", key |-> NoKey, val |-> NoVal]

\* Bucket::make_deleted: destroy_value, DELETED.
make_deleted(bucket) == [state |-> "DELETED", key |-> NoKey, val |-> NoVal]

is_empty(bucket) == bucket.state = "EMPTY"
is_occupied(bucket) == bucket.state = "OCCUPIED"
is_deleted(bucket) == bucket.state = "DELETED"

(* ------------------------- hash and probing --------------------------- *)

\* std::hash<int>: static_cast<size_t>(key), held as key itself (see probe).
hasher(key) == key

\* std::size_t is an unsigned integer of SizeBits bits.
SizeBits == 64

RECURSIVE Pow2Mod(_, _)
\* 2^e mod m, for m >= 1
Pow2Mod(e, m) == IF e = 0 THEN 1 % m ELSE (2 * Pow2Mod(e - 1, m)) % m

\* 2^SizeBits mod m for every capacity m a table of the model is given
\* (a growth is computed, at up to 2 * MaxCap, before it is refused).
SizeModulus == [m \in 1..(2 * MaxCap) |-> Pow2Mod(SizeBits, m)]

\* LinearProbing::probe: (hash + attempt) % capacity in std::size_t.  A
\* hash is held as the integer h in -2^31 .. 2^31 - 1 that static_cast
\* <size_t> took it from and stands for h mod 2^SizeBits: while
\* h + attempt < 0 the sum is 2^SizeBits + h + attempt, and from
\* h + attempt = 0 on it has wrapped to h + attempt.
probe(key, hash, attempt, capacity) ==
    IF hash + attempt >= 0
    THEN (hash + attempt) % capacity
    ELSE (SizeModulus[capacity] + ((hash + attempt) % capacity)) % capacity

\* x % m in std::size_t, for x held as probe holds a hash: x itself when
\* x >= 0, and 2^SizeBits + x when x < 0.
SizeMod(x, m) ==
    IF x >= 0 THEN x % m ELSE (Pow2Mod(SizeBits, m) + (x % m)) % m

\* QuadraticProbing(c1 = 1, c2 = 3): the default constants
C1 == 1
C2 == 3

\* QuadraticProbing::probe with the default constants:
\* (hash + _c1 * attempt + _c2 * attempt * attempt) % capacity
QuadraticProbing_probe(key, hash, attempt, capacity) ==
    SizeMod(hash + C1 * attempt + C2 * attempt * attempt, capacity)

\* DoubleHashing(secondary_prime = 97): the default constant
SecondaryPrime == 97

\* The step of DoubleHashing::probe:
\* _secondary_prime - (std::hash<Key>{}(key) % _secondary_prime)
hash2(key) == SecondaryPrime - SizeMod(hasher(key), SecondaryPrime)

\* DoubleHashing::probe with the default constant:
\* (hash + attempt * hash2) % capacity
DoubleHashing_probe(key, hash, attempt, capacity) ==
    SizeMod(hash + attempt * hash2(key), capacity)

(* ------------------------------- table -------------------------------- *)

capacity(t) == Len(t.buckets)

\* allocate_buckets(n) on an empty vector: n fresh EMPTY buckets.
allocate_buckets(n) == [i \in 1..n |-> Bucket]

\* OpenAddressingHashTable(size_type capacity)
NewTable(n) ==
    [buckets |-> allocate_buckets(n), size |-> 0, mlf |-> DefaultMlf,
     probing |-> "LinearProbing"]

\* OpenAddressingHashTable(size_type capacity, hash, equal, strategy):
\* _probing is a clone of strategy.
NewTableWith(n, strategy) ==
    [buckets |-> allocate_buckets(n), size |-> 0, mlf |-> DefaultMlf,
     probing |-> strategy]

\* load_factor with a slip: DELETED buckets are counted with the OCCUPIED.
load_factor_with_tombstones(t) ==
    IF capacity(t) = 0 THEN <<0, 1>>
    ELSE <<Cardinality({i \in 1..capacity(t) : t.buckets[i].state # "EMPTY"}),
           capacity(t)>>

\* load_factor() as a fraction <<numerator, denominator>>
load_factor(t) ==
    IF capacity(t) = 0 THEN <<0, 1>> ELSE <<t.size, capacity(t)>>

\* max_load_factor() as a fraction
max_load_factor(t) == <<t.mlf, MlfDen>>

\* x > y for floats held as fractions with positive denominators; false
\* when either is NaN
Greater(x, y) == x[1] # NaN /\ y[1] # NaN /\ x[1] * y[2] > y[1] * x[2]

\* A call of _probing->probe on a table whose _probing is nullptr.
NullProbe(t) == t.probing = "nullptr" /\ capacity(t) > 0

\* _probing->probe(key, hash, attempt, _buckets.size()): the probe of the
\* strategy the table was constructed with (a table whose _probing is
\* nullptr is of the default type, whose strategy is LinearProbing).
strategy_probe(t, key, hash, attempt) ==
    IF t.probing = "QuadraticProbing"
    THEN QuadraticProbing_probe(key, hash, attempt, capacity(t))
    ELSE IF t.probing = "DoubleHashing"
    THEN DoubleHashing_probe(key, hash, attempt, capacity(t))
    ELSE probe(key, hash, attempt, capacity(t))

RECURSIVE find_index_from(_, _, _, _)
\* The loop of find_index from attempt i on.
find_index_from(t, key, hash, i) ==
    IF i >= capacity(t) THEN capacity(t)
    ELSE LET index == strategy_probe(t, key, hash, i)
             bucket == t.buckets[index + 1]
         IN  IF is_empty(bucket) THEN capacity(t)
             ELSE IF is_occupied(bucket) /\ bucket.key = key THEN index
             ELSE find_index_from(t, key, hash, i + 1)

find_index(t, key) ==
    IF capacity(t) = 0 THEN NPos
    ELSE find_index_from(t, key, hasher(key), 0)

RECURSIVE probe_insert_from(_, _, _, _, _)
\* The loop of probe_insert_slot from attempt i on, and what follows it.
probe_insert_from(t, key, hash_value, i, first_deleted_index) ==
    IF i >= capacity(t)
    THEN IF first_deleted_index # capacity(t)
         THEN [index |-> first_deleted_index, inserted |-> TRUE]
         ELSE [index |-> capacity(t), inserted |-> FALSE]
    ELSE LET index == strategy_probe(t, key, hash_value, i)
             bucket == t.buckets[index + 1]
         IN  IF is_empty(bucket)
             THEN [index |-> IF first_deleted_index # capacity(t)
                             THEN first_deleted_index ELSE index,
                   inserted |-> TRUE]
             ELSE IF is_deleted(bucket)
             THEN probe_insert_from(t, key, hash_value, i + 1,
                      IF first_deleted_index = capacity(t)
                      THEN index ELSE first_deleted_index)
             ELSE IF is_occupied(bucket) /\ bucket.key = key
                     /\ ~AllowDuplicates
             THEN [index |-> index, inserted |-> FALSE]
             ELSE probe_insert_from(t, key, hash_value, i + 1,
                                    first_deleted_index)

\* probe_insert_slot with a slip: DELETED buckets are passed over and the
\* first EMPTY bucket of the probe sequence is taken.
probe_insert_first_empty(t, key, hash_value) ==
    LET empties == {i \in 0..(capacity(t) - 1) :
                       is_empty(t.buckets[probe(key, hash_value, i,
                                                capacity(t)) + 1])}
    IN  IF empties = {} THEN [index |-> capacity(t), inserted |-> FALSE]
        ELSE [index |-> probe(key, hash_value,
                              CHOOSE i \in empties : \A j \in empties : i <= j,
                              capacity(t)),
              inserted |-> TRUE]

probe_insert_slot(t, key, hash_value) ==
    probe_insert_from(t, key, hash_value, 0, capacity(t))

RECURSIVE rehash_from(_, _, _)
\* The loop of rehash over old_buckets from position j on; t is the table
\* being rebuilt.
rehash_from(t, old_buckets, j) ==
    IF j > Len(old_buckets) THEN t
    ELSE LET bucket == old_buckets[j] IN
         IF is_occupied(bucket)
         THEN LET r == probe_insert_slot(t, bucket.key, hasher(bucket.key))
              IN  IF r.inserted
                  THEN rehash_from(
                           [t EXCEPT !.buckets[r.index + 1] =
                                         set(bucket.key, bucket.val),
                                     !.size = @ + 1],
                           old_buckets, j + 1)
                  ELSE rehash_from(t, old_buckets, j + 1)
         ELSE rehash_from(t, old_buckets, j + 1)

\* rehash with a slip: every OCCUPIED bucket is kept at the index it had in
\* the old array in place of being probed for at the new capacity.
rehash_same_index(t, new_capacity) ==
    [t EXCEPT !.buckets =
        [i \in 1..new_capacity |->
            IF i <= capacity(t) /\ is_occupied(t.buckets[i])
            THEN t.buckets[i] ELSE Bucket],
              !.size = Cardinality({i \in 1..capacity(t) :
                                      i <= new_capacity
                                      /\ is_occupied(t.buckets[i])})]

rehash(t, new_capacity) ==
    rehash_from([t EXCEPT !.buckets = allocate_buckets(new_capacity),
                          !.size = 0],
                t.buckets, 1)

\* check_load_and_rehash with a slip: one bucket is added in place of
\* doubling.
check_load_and_grow_by_one(t) ==
    IF Greater(load_factor(t), max_load_factor(t))
    THEN rehash(t, capacity(t) + 1)
    ELSE t

check_load_and_rehash(t) ==
    IF Greater(load_factor(t), max_load_factor(t))
    THEN rehash(t, capacity(t) * 2)
    ELSE t


(* ------------------------------ iterators ----------------------------- *)

RECURSIVE skip_to_valid(_, _)
\* HashIterator::skip_to_valid: the position of the first OCCUPIED bucket at
\* or after pos, capacity(t) (the end position) when there is none.
skip_to_valid(t, pos) ==
    IF pos >= capacity(t) THEN capacity(t)
    ELSE IF is_occupied(t.buckets[pos + 1]) THEN pos
    ELSE skip_to_valid(t, pos + 1)

\* The iterator constructor with a slip: skip_to_valid is not called.
iterator_no_skip(t, index) == index

\* iterator(_buckets.data() + index, _buckets.data() + _buckets.size())
iterator(t, index) == skip_to_valid(t, index)

\* end()
end(t) == capacity(t)

\* begin()
begin(t) == iterator(t, 0)

\* HashIterator::operator++: ++_current; skip_to_valid();
increment(t, pos) == skip_to_valid(t, pos + 1)

RECURSIVE traverse_from(_, _)
\* for (it = pos; it != end(); ++it): the positions visited, in order.
traverse_from(t, pos) ==
    IF pos >= end(t) THEN <<>>
    ELSE <<pos>> \o traverse_from(t, increment(t, pos))

\* for (auto it = begin(); it != end(); ++it)
traverse(t) == traverse_from(t, begin(t))

(* -------------------------- public operations ------------------------- *)

\* What a call returns and leaves behind: the table, the call's result (ret:
\* the bool of a pair, a count, or a mapped value), the iterator position
\* returned (NPos when none is), whether it threw, and the undefined
\* behaviour it ran into ("oob": a bucket index outside [0, capacity);
\* "nullptr": a call through a null _probing).
Result(t, ret, it, threw, fault) ==
    [t |-> t, ret |-> ret, it |-> it, threw |-> threw, fault |-> fault]

Bool(x) == IF x THEN 1 ELSE 0

\* insert(const value_type&), insert(value_type&&), insert(key, value)
insert(t, key, value) ==
    LET t1 == check_load_and_rehash(t) IN
    IF NullProbe(t1) THEN Result(t1, 0, NPos, FALSE, "nullptr")
    ELSE
    LET r == probe_insert_slot(t1, key, hasher(key)) IN
    IF r.index = capacity(t1) THEN Result(t1, 0, end(t1), FALSE, "none")
    ELSE LET t2 == IF r.inserted
                   THEN [t1 EXCEPT !.buckets[r.index + 1] = set(key, value),
                                   !.size = @ + 1]
                   ELSE t1
         IN  Result(t2, Bool(r.inserted), iterator(t2, r.index), FALSE, "none")

\* emplace(Args&&...): value_type val(args...), then as insert
emplace(t, key, value) ==
    LET t1 == check_load_and_rehash(t) IN
    IF NullProbe(t1) THEN Result(t1, 0, NPos, FALSE, "nullptr")
    ELSE
    LET r == probe_insert_slot(t1, key, hasher(key)) IN
    IF r.index = capacity(t1) THEN Result(t1, 0, end(t1), FALSE, "none")
    ELSE LET t2 == IF r.inserted
                   THEN [t1 EXCEPT !.buckets[r.index + 1] = set(key, value),
                                   !.size = @ + 1]
                   ELSE t1
         IN  Result(t2, Bool(r.inserted), iterator(t2, r.index), FALSE, "none")

\* try_emplace(key, Args&&...)
try_emplace(t, key, value) ==
    LET t1 == check_load_and_rehash(t) IN
    IF NullProbe(t1) THEN Result(t1, 0, NPos, FALSE, "nullptr")
    ELSE
    LET r == probe_insert_slot(t1, key, hasher(key)) IN
    IF r.index = capacity(t1) THEN Result(t1, 0, end(t1), FALSE, "none")
    ELSE LET t2 == IF r.inserted
                   THEN [t1 EXCEPT !.buckets[r.index + 1] = set(key, value),
                                   !.size = @ + 1]
                   ELSE t1
         IN  Result(t2, Bool(r.inserted), iterator(t2, r.index), FALSE, "none")

\* insert_or_assign(key, obj)
insert_or_assign(t, key, obj) ==
    LET t1 == check_load_and_rehash(t) IN
    IF NullProbe(t1) THEN Result(t1, 0, NPos, FALSE, "nullptr")
    ELSE
    LET r == probe_insert_slot(t1, key, hasher(key)) IN
    IF r.index = capacity(t1) THEN Result(t1, 0, end(t1), FALSE, "none")
    ELSE LET t2 == IF r.inserted
                   THEN [t1 EXCEPT !.buckets[r.index + 1] = set(key, obj),
                                   !.size = @ + 1]
                   ELSE [t1 EXCEPT !.buckets[r.index + 1].val = obj]
         IN  Result(t2, Bool(r.inserted), iterator(t2, r.index), FALSE, "none")

\* operator[](const key_type&), operator[](key_type&&): ret is the mapped
\* value the returned reference names.  _buckets[index] is read with no
\* check of index against the capacity.
subscript(t, key) ==
    LET t1 == check_load_and_rehash(t) IN
    IF NullProbe(t1) THEN Result(t1, 0, NPos, FALSE, "nullptr")
    ELSE
    LET r == probe_insert_slot(t1, key, hasher(key)) IN
    IF r.index >= capacity(t1) THEN Result(t1, 0, NPos, FALSE, "oob")
    ELSE LET t2 == IF r.inserted
                   THEN [t1 EXCEPT !.buckets[r.index + 1] = set(key, NoVal),
                                   !.size = @ + 1]
                   ELSE t1
         IN  Result(t2, t2.buckets[r.index + 1].val, NPos, FALSE, "none")

\* A bucket index the callers of find_index use after comparing it with
\* _buckets.size() only: NPos passes that comparison on an empty vector.
OutOfRange(t, index) == index # capacity(t) /\ (index < 0 \/ index > capacity(t))

\* erase with a slip: every OCCUPIED bucket holding key is made DELETED in
\* place of the first one found.
erase_every(t, key) ==
    LET hit == {i \in 1..capacity(t) :
                   is_occupied(t.buckets[i]) /\ t.buckets[i].key = key}
    IN  IF hit = {} THEN Result(t, 0, NPos, FALSE, "none")
        ELSE Result([t EXCEPT !.buckets =
                         [i \in 1..capacity(t) |->
                             IF i \in hit THEN make_deleted(@[i]) ELSE @[i]],
                              !.size = @ - Cardinality(hit)],
                    1, NPos, FALSE, "none")

\* erase(key): ret is the number of entries removed
erase(t, key) ==
    IF NullProbe(t) THEN Result(t, 0, NPos, FALSE, "nullptr")
    ELSE
    LET index == find_index(t, key) IN
    IF index = capacity(t) THEN Result(t, 0, NPos, FALSE, "none")
    ELSE IF OutOfRange(t, index) THEN Result(t, 0, NPos, FALSE, "oob")
    ELSE IF ~is_occupied(t.buckets[index + 1])
    THEN Result(t, 0, NPos, FALSE, "none")
    ELSE Result([t EXCEPT !.buckets[index + 1] = make_deleted(@),
                          !.size = @ - 1],
                1, NPos, FALSE, "none")

\* clear()
clear(t) ==
    Result([t EXCEPT !.buckets = [i \in 1..capacity(t) |-> clear_bucket(@[i])],
                     !.size = 0],
           0, NPos, FALSE, "none")

\* find(key): ret is 1 when the iterator returned is not end()
find(t, key) ==
    IF NullProbe(t) THEN Result(t, 0, NPos, FALSE, "nullptr")
    ELSE
    LET index == find_index(t, key) IN
    IF index = capacity(t) THEN Result(t, 0, end(t), FALSE, "none")
    ELSE IF OutOfRange(t, index) THEN Result(t, 0, NPos, FALSE, "oob")
    ELSE IF ~is_occupied(t.buckets[index + 1])
    THEN Result(t, 0, end(t), FALSE, "none")
    ELSE Result(t, 1, iterator(t, index), FALSE, "none")

\* contains(key)
contains(t, key) ==
    IF NullProbe(t) THEN Result(t, 0, NPos, FALSE, "nullptr")
    ELSE
    LET index == find_index(t, key) IN
    IF index = capacity(t) THEN Result(t, 0, NPos, FALSE, "none")
    ELSE IF OutOfRange(t, index) THEN Result(t, 0, NPos, FALSE, "oob")
    ELSE Result(t, Bool(is_occupied(t.buckets[index + 1])), NPos, FALSE, "none")

\* count(key)
count(t, key) ==
    IF ~AllowDuplicates
    THEN contains(t, key)
    ELSE Result(t,
                Cardinality({i \in 1..capacity(t) :
                                is_occupied(t.buckets[i])
                                /\ t.buckets[i].key = key}),
                NPos, FALSE, "none")

RECURSIVE equal_range_from(_, _, _)
\* The loop of equal_range in duplicates mode: from position pos on,
\* while (it != end() && _equal(get_key(*it), key)) ++it;
equal_range_from(t, key, pos) ==
    IF pos = end(t) THEN pos
    ELSE IF t.buckets[pos + 1].key # key THEN pos
    ELSE equal_range_from(t, key, skip_to_valid(t, pos + 1))

\* equal_range(key): it is the position of the first iterator of the pair
\* returned and ret the position of the second.
equal_range(t, key) ==
    LET f == find(t, key) IN
    IF f.fault # "none" THEN Result(t, 0, NPos, FALSE, f.fault)
    ELSE IF f.it = end(t) THEN Result(t, end(t), end(t), FALSE, "none")
    ELSE IF ~AllowDuplicates
    THEN Result(t, skip_to_valid(t, f.it + 1), f.it, FALSE, "none")
    ELSE Result(t, equal_range_from(t, key, f.it), f.it, FALSE, "none")

\* at(key): ret is the mapped value; threw is std::out_of_range
at(t, key) ==
    IF NullProbe(t) THEN Result(t, 0, NPos, FALSE, "nullptr")
    ELSE
    LET index == find_index(t, key) IN
    IF index = capacity(t) THEN Result(t, 0, NPos, TRUE, "none")
    ELSE IF OutOfRange(t, index) THEN Result(t, 0, NPos, FALSE, "oob")
    ELSE IF ~is_occupied(t.buckets[index + 1])
    THEN Result(t, 0, NPos, TRUE, "none")
    ELSE Result(t, t.buckets[index + 1].val, NPos, FALSE, "none")

\* max_load_factor(float ml), ml = n / MlfDen: threw is std::invalid_argument
set_max_load_factor(t, n) ==
    IF n # NaN /\ (n <= 0 \/ n > MlfDen) THEN Result(t, 0, NPos, TRUE, "none")
    ELSE Result(check_load_and_rehash([t EXCEPT !.mlf = n]),
                0, NPos, FALSE, "none")

\* empty()
empty(t) == t.size = 0

\* A traversal from begin() to end() as a call: ret is the number of
\* entries visited and it the position of begin().
iterate(t) == Result(t, Len(traverse(t)), begin(t), FALSE, "none")

\* reserve(n)
reserve(t, n) ==
    Result(IF n > capacity(t) THEN rehash(t, n) ELSE t, 0, NPos, FALSE, "none")

\* rehash(new_capacity) as a public call
rehash_call(t, new_capacity) ==
    Result(rehash(t, new_capacity), 0, NPos, FALSE, "none")

(* ----------------------- construction, copy, move --------------------- *)

RECURSIVE insert_all(_, _, _)
\* for (const auto& elem : init) insert(elem);
insert_all(t, init, j) ==
    IF j > Len(init) THEN t
    ELSE insert_all(insert(t, init[j][1], init[j][2]).t, init, j + 1)

\* OpenAddressingHashTable(std::initializer_list<value_type> init)
FromList(init) == insert_all(NewTable(Len(init)), init, 1)

\* The loop shared by the copy constructor and copy assignment: bucket i of
\* the copy is set from bucket i of other when that one is OCCUPIED and is
\* left as allocated (EMPTY) otherwise.
copy_buckets(other) ==
    [i \in 1..capacity(other) |->
        IF is_occupied(other.buckets[i])
        THEN set(other.buckets[i].key, other.buckets[i].val)
        ELSE Bucket]

\* OpenAddressingHashTable(const OpenAddressingHashTable& other)
copy_construct(other) ==
    [buckets |-> copy_buckets(other),
     size |-> Cardinality({i \in 1..capacity(other) :
                              is_occupied(other.buckets[i])}),
     mlf |-> other.mlf,
     probing |-> other.probing]

\* operator=(const OpenAddressingHashTable& other), this != &other
copy_assign(t, other) ==
    [buckets |-> copy_buckets(other),
     size |-> Cardinality({i \in 1..capacity(other) :
                              is_occupied(other.buckets[i])}),
     mlf |-> other.mlf,
     probing |-> other.probing]

\* The source of a move with a slip: _size is not reset.
moved_from_keeps_size(other) ==
    [buckets |-> <<>>, size |-> other.size, mlf |-> other.mlf,
     probing |-> "nullptr"]

\* The source of a move with a slip: _probing is not reset, so that both
\* tables hold the pointer.
moved_from_keeps_probing(other) ==
    [buckets |-> <<>>, size |-> 0, mlf |-> other.mlf,
     probing |-> other.probing]

\* What a move leaves in its source: the vector moved from is empty,
\* _size = 0, _probing = nullptr, _max_load_factor as it was.
moved_from(other) ==
    [buckets |-> <<>>, size |-> 0, mlf |-> other.mlf, probing |-> "nullptr"]

\* OpenAddressingHashTable(OpenAddressingHashTable&& other): the new table
move_construct(other) ==
    [buckets |-> other.buckets, size |-> other.size, mlf |-> other.mlf,
     probing |-> other.probing]

\* operator=(OpenAddressingHashTable&& other), this != &other: the target
move_assign(t, other) ==
    [buckets |-> other.buckets, size |-> other.size, mlf |-> other.mlf,
     probing |-> other.probing]

\* The loop of operator== with a slip: *it != kv is not tested.
AllFound(t, other) ==
    \A i \in 1..capacity(t) :
        is_occupied(t.buckets[i]) => find(other, t.buckets[i].key).ret = 1

\* for (const auto& kv : *this) { it = other.find(key);
\*     if (it == other.end() || *it != kv) return false; }
AllFoundEqual(t, other) ==
    \A i \in 1..capacity(t) :
        is_occupied(t.buckets[i]) =>
            LET f == find(other, t.buckets[i].key) IN
            /\ f.ret = 1
            /\ other.buckets[f.it + 1] = t.buckets[i]

\* The (key, value) pairs of t with the number of OCCUPIED buckets holding
\* each: the std::unordered_multiset built from *this.
Entries(t) ==
    [e \in Keys \X Values |->
        Cardinality({i \in 1..capacity(t) :
                        is_occupied(t.buckets[i])
                        /\ t.buckets[i].key = e[1]
                        /\ t.buckets[i].val = e[2]})]

\* operator==(other): ret is 1 for true.  A lookup in other that runs into
\* undefined behaviour is reported as the call's fault.
equals(t, other) ==
    IF t.size # other.size THEN Result(t, 0, NPos, FALSE, "none")
    ELSE IF ~AllowDuplicates
    THEN LET faults == {find(other, t.buckets[i].key).fault :
                           i \in {j \in 1..capacity(t) :
                                     is_occupied(t.buckets[j])}}
         IN  IF faults \subseteq {"none"}
             THEN Result(t, Bool(AllFoundEqual(t, other)), NPos, FALSE, "none")
             ELSE Result(t, 0, NPos, FALSE,
                         CHOOSE f \in faults : f # "none")
    ELSE Result(t, Bool(Entries(t) = Entries(other)), NPos, FALSE, "none")

(* ------------------------------- state -------------------------------- *)
(* a: the table the program works on.                                      *)
(* b: <<>> while no second table exists, else <<t>>, the second table.     *)
(* last: the last call, the capacity of a before it, what it returned.     *)
(* halted: the program crashed in undefined behaviour.                     *)
(* AllowDuplicates: the template parameter, fixed at construction.         *)
(* expected: for the runs of inserts and erases only (SpecDefault), the    *)
(*   keys inserted and not erased since, each with the value of its        *)
(*   insertion: expected[k] is <<>> or <<v>>.                              *)

\* The record of a call.
Call(op, key, val, r) ==
    [op |-> op, key |-> key, val |-> val, cap |-> capacity(a),
     ret |-> r.ret, it |-> r.it, threw |-> r.threw, fault |-> r.fault]

NoResult == Result(<<>>, 0, NPos, FALSE, "none")

\* Initializer lists of at most MaxList entries.
Lists == UNION {[1..n -> Keys \X Values] : n \in 0..MaxList}

Nothing == [k \in Keys |-> <<>>]

\* The state after construction of a, by OpenAddressingHashTable(capacity)
\* or from an initializer list.
Init ==
    /\ AllowDuplicates = FALSE
    /\ b = <<>>
    /\ halted = FALSE
    /\ expected = Nothing
    /\ \/ \E n \in 0..MaxCap :
            /\ a = NewTable(n)
            /\ last = [op |-> "construct", key |-> NoKey, val |-> n, cap |-> n,
                       ret |-> 0, it |-> NPos, threw |-> FALSE, fault |-> "none"]
       \/ \E init \in Lists :
            /\ a = FromList(init)
            /\ last = [op |-> "construct_list", key |-> NoKey, val |-> Len(init),
                       cap |-> Len(init), ret |-> 0, it |-> NPos,
                       threw |-> FALSE, fault |-> "none"]

\* A call on a with result r.  Undefined behaviour either crashes the
\* program or lets it run on with whatever the call returned.
Apply(op, key, val, r) ==
    /\ ~halted
    /\ b = <<>>
    /\ capacity(r.t) <= MaxCap
    /\ a' = r.t
    /\ IF r.fault = "none"
       THEN /\ last' = Call(op, key, val, r)
            /\ halted' = FALSE
       ELSE \E crash \in BOOLEAN, garbage \in 0..1 :
            /\ last' = [Call(op, key, val, r) EXCEPT !.ret = garbage]
            /\ halted' = crash
    /\ UNCHANGED <<b, AllowDuplicates>>

Insert(k, v) ==
    Apply("insert", k, v, insert(a, k, v)) /\ UNCHANGED expected
Emplace(k, v) ==
    Apply("emplace", k, v, emplace(a, k, v)) /\ UNCHANGED expected
TryEmplace(k, v) ==
    Apply("try_emplace", k, v, try_emplace(a, k, v)) /\ UNCHANGED expected
InsertOrAssign(k, v) ==
    Apply("insert_or_assign", k, v, insert_or_assign(a, k, v)) /\ UNCHANGED expected
Subscript(k) ==
    Apply("operator[]", k, NoVal, subscript(a, k)) /\ UNCHANGED expected
Erase(k) ==
    Apply("erase", k, NoVal, erase(a, k)) /\ UNCHANGED expected
Clear ==
    Apply("clear", NoKey, NoVal, clear(a)) /\ UNCHANGED expected
Find(k) ==
    Apply("find", k, NoVal, find(a, k)) /\ UNCHANGED expected
Contains(k) ==
    Apply("contains", k, NoVal, contains(a, k)) /\ UNCHANGED expected
Count(k) ==
    Apply("count", k, NoVal, count(a, k)) /\ UNCHANGED expected
At(k) ==
    Apply("at", k, NoVal, at(a, k)) /\ UNCHANGED expected
SetMaxLoadFactor(n) ==
    Apply("max_load_factor", NoKey, n, set_max_load_factor(a, n)) /\ UNCHANGED expected
Reserve(n) ==
    Apply("reserve", NoKey, n, reserve(a, n)) /\ UNCHANGED expected
Rehash(n) ==
    Apply("rehash", NoKey, n, rehash_call(a, n)) /\ UNCHANGED expected
Iterate ==
    Apply("iterate", NoKey, NoVal, iterate(a)) /\ UNCHANGED expected

\* A step of the two-table part: the tables afterwards and the call.
Pair(op, ta, tb, r) ==
    /\ ~halted
    /\ a' = ta
    /\ b' = tb
    /\ last' = Call(op, NoKey, NoVal, r)
    /\ halted' = (r.fault # "none")
    /\ UNCHANGED <<AllowDuplicates, expected>>

\* OpenAddressingHashTable b(a);
CopyConstruct ==
    b = <<>> /\ Pair("copy_construct", a, <<copy_construct(a)>>, NoResult)
\* OpenAddressingHashTable b(std::move(a));
MoveConstruct ==
    b = <<>> /\ Pair("move_construct", moved_from(a), <<move_construct(a)>>, NoResult)
\* a = b;
CopyAssignA ==
    b # <<>> /\ Pair("copy_assign_a", copy_assign(a, b[1]), b, NoResult)
\* b = a;
CopyAssignB ==
    b # <<>> /\ Pair("copy_assign_b", a, <<copy_assign(b[1], a)>>, NoResult)
\* a = std::move(b);
MoveAssignA ==
    b # <<>> /\ Pair("move_assign_a", move_assign(a, b[1]), <<moved_from(b[1])>>, NoResult)
\* b = std::move(a);
MoveAssignB ==
    b # <<>> /\ Pair("move_assign_b", moved_from(a), <<move_assign(b[1], a)>>, NoResult)
\* a.swap(b);
Swap ==
    b # <<>> /\ Pair("swap", b[1], <<a>>, NoResult)
\* a == b
Equals ==
    b # <<>> /\ Pair("operator==", a, b, equals(a, b[1]))
\* b goes out of scope: ~OpenAddressingHashTable()
Destroy ==
    b # <<>> /\ Pair("destroy", a, <<>>, NoResult)

\* Any public operation.  While b exists the program works on the pair
\* only; calls on a wait until b is destroyed.
Next ==
    \/ \E k \in Keys, v \in Values : Insert(k, v)
    \/ \E k \in Keys, v \in Values : Emplace(k, v)
    \/ \E k \in Keys, v \in Values : TryEmplace(k, v)
    \/ \E k \in Keys, v \in Values : InsertOrAssign(k, v)
    \/ \E k \in Keys : Subscript(k)
    \/ \E k \in Keys : Erase(k)
    \/ Clear
    \/ \E k \in Keys : Find(k)
    \/ \E k \in Keys : Contains(k)
    \/ \E k \in Keys : Count(k)
    \/ \E k \in Keys : At(k)
    \/ \E n \in MlfInputs : SetMaxLoadFactor(n)
    \/ \E n \in 0..MaxCap : Reserve(n)
    \/ \E n \in 0..MaxCap : Rehash(n)
    \/ Iterate
    \/ CopyConstruct
    \/ MoveConstruct
    \/ CopyAssignA
    \/ CopyAssignB
    \/ MoveAssignA
    \/ MoveAssignB
    \/ Swap
    \/ Equals
    \/ Destroy

Spec == Init /\ [][Next]_vars

(* ------------- runs of inserts and erases, default settings ----------- *)

\* A table as constructed with the defaults (LinearProbing, 0.75f, no
\* duplicates), at a capacity of at least 1 in place of the default 16.
InitDefault ==
    /\ AllowDuplicates = FALSE
    /\ b = <<>>
    /\ halted = FALSE
    /\ expected = Nothing
    /\ \E n \in 1..MaxCap :
            /\ a = NewTable(n)
            /\ last = [op |-> "construct", key |-> NoKey, val |-> n, cap |-> n,
                       ret |-> 0, it |-> NPos, threw |-> FALSE, fault |-> "none"]

InsertDefault(k, v) ==
    /\ Apply("insert", k, v, insert(a, k, v))
    /\ expected' = IF expected[k] = <<>>
                   THEN [expected EXCEPT ![k] = <<v>>]
                   ELSE expected

EraseDefault(k) ==
    /\ Apply("erase", k, NoVal, erase(a, k))
    /\ expected' = [expected EXCEPT ![k] = <<>>]

NextDefault ==
    \/ \E k \in Keys, v \in Values : InsertDefault(k, v)
    \/ \E k \in Keys : EraseDefault(k)

SpecDefault == InitDefault /\ [][NextDefault]_vars

(* ------------- runs of inserts and erases, duplicates mode ------------ *)
(* In these runs expected[k] is <<c, e>>: c is the number of insert calls  *)
(* for k that reported inserted = true less the number of erase(k) calls   *)
(* made while c > 0, and e is 1 once such an erase has been made.          *)

NothingDup == [k \in Keys |-> <<0, 0>>]

\* OpenAddressingHashTable<int, V, std::hash<int>, std::equal_to<int>,
\* LinearProbing<int>, true>, at a capacity of at least 1 in place of 16.
InitDup ==
    /\ AllowDuplicates = TRUE
    /\ b = <<>>
    /\ halted = FALSE
    /\ expected = NothingDup
    /\ \E n \in 1..MaxCap :
            /\ a = NewTable(n)
            /\ last = [op |-> "construct", key |-> NoKey, val |-> n, cap |-> n,
                       ret |-> 0, it |-> NPos, threw |-> FALSE, fault |-> "none"]

InsertDup(k, v) ==
    /\ Apply("insert", k, v, insert(a, k, v))
    /\ expected' = IF insert(a, k, v).ret = 1
                   THEN [expected EXCEPT ![k][1] = @ + 1]
                   ELSE expected

EraseDup(k) ==
    /\ Apply("erase", k, NoVal, erase(a, k))
    /\ expected' = IF expected[k][1] > 0
                   THEN [expected EXCEPT ![k] = <<@[1] - 1, 1>>]
                   ELSE expected

CountDup(k) ==
    Apply("count", k, NoVal, count(a, k)) /\ UNCHANGED expected

EqualRangeDup(k) ==
    Apply("equal_range", k, NoVal, equal_range(a, k)) /\ UNCHANGED expected

NextDup ==
    \/ \E k \in Keys, v \in Values : InsertDup(k, v)
    \/ \E k \in Keys : EraseDup(k)
    \/ \E k \in Keys : CountDup(k)
    \/ \E k \in Keys : EqualRangeDup(k)

SpecDup == InitDup /\ [][NextDup]_vars

(* ------------------- fill, erase all, fill again ---------------------- *)
(* A table of capacity N constructed with the defaults is given N distinct *)
(* keys, all of them are erased, and N further keys are inserted.  In      *)
(* these runs expected is a record: first and second are the keys of the   *)
(* two batches, erased the keys erased, cap the capacity when the second   *)
(* batch began, ok whether every insert of the second batch reported       *)
(* inserted = true, and n is N.                                            *)

\* Keys enough for two batches at the largest capacity.
BatchKeys == 1..(2 * MaxCap)

InitBatch ==
    /\ AllowDuplicates = FALSE
    /\ b = <<>>
    /\ halted = FALSE
    /\ \E n \in 1..MaxCap :
            /\ a = NewTable(n)
            /\ expected = [first |-> {}, erased |-> {}, second |-> {},
                           cap |-> 0, ok |-> TRUE, n |-> n]
            /\ last = [op |-> "construct", key |-> NoKey, val |-> n, cap |-> n,
                       ret |-> 0, it |-> NPos, threw |-> FALSE, fault |-> "none"]

InsertFirst(k) ==
    /\ Cardinality(expected.first) < expected.n
    /\ k \notin expected.first
    /\ Apply("insert", k, NoVal, insert(a, k, NoVal))
    /\ expected' = [expected EXCEPT !.first = @ \cup {k}]

EraseFirst(k) ==
    /\ Cardinality(expected.first) = expected.n
    /\ k \in expected.first \ expected.erased
    /\ Apply("erase", k, NoVal, erase(a, k))
    /\ expected' = [expected EXCEPT !.erased = @ \cup {k},
                                    !.cap = capacity(a)]

InsertSecond(k) ==
    /\ Cardinality(expected.first) = expected.n
    /\ expected.erased = expected.first
    /\ Cardinality(expected.second) < expected.n
    /\ k \notin expected.first \cup expected.second
    /\ Apply("insert", k, NoVal, insert(a, k, NoVal))
    /\ expected' = [expected EXCEPT !.second = @ \cup {k},
                                    !.ok = @ /\ insert(a, k, NoVal).ret = 1]

NextBatch ==
    \/ \E k \in BatchKeys : InsertFirst(k)
    \/ \E k \in BatchKeys : EraseFirst(k)
    \/ \E k \in BatchKeys : InsertSecond(k)

SpecBatch == InitBatch /\ [][NextBatch]_vars

(* ---------------------- two tables side by side ----------------------- *)
(* Two tables constructed separately, a and b[1], each worked on by        *)
(* inserts, erases, insert_or_assign, clear and reserve, and compared.     *)

\* In these runs no table is given more than MaxPairCap buckets.
MaxPairCap == 2

InitTwo ==
    /\ AllowDuplicates = FALSE
    /\ halted = FALSE
    /\ expected = Nothing
    /\ \E n \in 0..MaxPairCap, m \in 0..MaxPairCap :
            /\ a = NewTable(n)
            /\ b = <<NewTable(m)>>
            /\ last = [op |-> "construct", key |-> NoKey, val |-> m, cap |-> m,
                       ret |-> 0, it |-> NPos, threw |-> FALSE, fault |-> "none"]

\* The table a call is made on: a for side 1, b[1] for side 2.
Side(side) == IF side = 1 THEN a ELSE b[1]

\* A call on one of the two tables with result r; cap is the capacity of
\* that table before the call.
ApplyTo(side, op, key, val, r) ==
    /\ ~halted
    /\ b # <<>>
    /\ capacity(r.t) <= MaxPairCap
    /\ IF side = 1 THEN a' = r.t /\ b' = b ELSE a' = a /\ b' = <<r.t>>
    /\ IF r.fault = "none"
       THEN /\ last' = [Call(op, key, val, r) EXCEPT
                           !.cap = capacity(Side(side))]
            /\ halted' = FALSE
       ELSE \E crash \in BOOLEAN, garbage \in 0..1 :
            /\ last' = [Call(op, key, val, r) EXCEPT
                           !.cap = capacity(Side(side)), !.ret = garbage]
            /\ halted' = crash
    /\ UNCHANGED <<AllowDuplicates, expected>>

InsertTwo(side, k, v) ==
    ApplyTo(side, "insert", k, v, insert(Side(side), k, v))
EraseTwo(side, k) ==
    ApplyTo(side, "erase", k, NoVal, erase(Side(side), k))
InsertOrAssignTwo(side, k, v) ==
    ApplyTo(side, "insert_or_assign", k, v, insert_or_assign(Side(side), k, v))
ClearTwo(side) ==
    ApplyTo(side, "clear", NoKey, NoVal, clear(Side(side)))
ReserveTwo(side, n) ==
    ApplyTo(side, "reserve", NoKey, n, reserve(Side(side), n))

NextTwo ==
    \/ \E side \in 1..2, k \in Keys, v \in Values : InsertTwo(side, k, v)
    \/ \E side \in 1..2, k \in Keys : EraseTwo(side, k)
    \/ \E side \in 1..2, k \in Keys, v \in Values : InsertOrAssignTwo(side, k, v)
    \/ \E side \in 1..2 : ClearTwo(side)
    \/ \E side \in 1..2, n \in 0..MaxPairCap : ReserveTwo(side, n)
    \/ Equals

SpecTwo == InitTwo /\ [][NextTwo]_vars

(* ----------------------- keys of either sign -------------------------- *)
(* Runs of inserts and erases with int keys of either sign on a table      *)
(* constructed with the defaults, and calls of LinearProbing::probe with   *)
(* the hashes of these keys.                                               *)

SignedKeys == (-MaxKey)..MaxKey

InitSigned ==
    /\ AllowDuplicates = FALSE
    /\ b = <<>>
    /\ halted = FALSE
    /\ expected = Nothing
    /\ \E n \in 1..MaxCap :
            /\ a = NewTable(n)
            /\ last = [op |-> "construct", key |-> NoKey, val |-> n, cap |-> n,
                       ret |-> 0, it |-> NPos, threw |-> FALSE, fault |-> "none"]

InsertSigned(k) ==
    Apply("insert", k, NoVal, insert(a, k, NoVal)) /\ UNCHANGED expected

EraseSigned(k) ==
    Apply("erase", k, NoVal, erase(a, k)) /\ UNCHANGED expected

\* _probing->probe(k, _hash(k), i, _buckets.size()): ret is the index.
ProbeSigned(k, i) ==
    /\ i < capacity(a)
    /\ Apply("probe", k, i,
             Result(a, probe(k, hasher(k), i, capacity(a)), NPos, FALSE, "none"))
    /\ UNCHANGED expected

NextSigned ==
    \/ \E k \in SignedKeys : InsertSigned(k)
    \/ \E k \in SignedKeys : EraseSigned(k)
    \/ \E k \in SignedKeys, i \in 0..(MaxCap - 1) : ProbeSigned(k, i)

SpecSigned == InitSigned /\ [][NextSigned]_vars

\* A table of the default capacity with QuadraticProbing or DoubleHashing
\* for its strategy.

\* OpenAddressingHashTable(size_type capacity = 16)
DefaultCapacity == 16

\* How many times the default capacity is doubled.
MaxDoublings == 2

RECURSIVE Doubled(_, _)
\* The capacity d growths lead to from capacity n: each growth is a
\* rehash(_buckets.size() * 2).
Doubled(n, d) == IF d = 0 THEN n ELSE Doubled(2 * n, d - 1)

\* The capacities a table reaches from the default capacity by doubling.
DoubledCapacities == {Doubled(DefaultCapacity, d) : d \in 0..MaxDoublings}

\* A call on a, as Apply, for a table that starts at the default capacity.
ApplyStrategy(op, key, val, r) ==
    /\ ~halted
    /\ b = <<>>
    /\ capacity(r.t) <= Doubled(DefaultCapacity, MaxDoublings)
    /\ a' = r.t
    /\ IF r.fault = "none"
       THEN /\ last' = Call(op, key, val, r)
            /\ halted' = FALSE
       ELSE \E crash \in BOOLEAN, garbage \in 0..1 :
            /\ last' = [Call(op, key, val, r) EXCEPT !.ret = garbage]
            /\ halted' = crash
    /\ UNCHANGED <<b, AllowDuplicates>>

\* The keys given to the table with QuadraticProbing: the even keys up to
\* the default capacity (the key 0 and the key 16 share their first bucket).
QuadraticKeys == {k \in 0..DefaultCapacity : k % 2 = 0}

\* OpenAddressingHashTable<int, T, std::hash<int>, std::equal_to<int>,
\* QuadraticProbing<int>> t(16, hash, equal, QuadraticProbing<int>())
InitQuadratic ==
    /\ AllowDuplicates = FALSE
    /\ b = <<>>
    /\ halted = FALSE
    /\ expected = Nothing
    /\ a = NewTableWith(DefaultCapacity, "QuadraticProbing")
    /\ last = [op |-> "construct", key |-> NoKey, val |-> DefaultCapacity,
               cap |-> DefaultCapacity, ret |-> 0, it |-> NPos,
               threw |-> FALSE, fault |-> "none"]

InsertQuadratic(k) ==
    ApplyStrategy("insert", k, NoVal, insert(a, k, NoVal)) /\ UNCHANGED expected

\* _probing->probe(k, _hash(k), i, _buckets.size()): ret is the index.
ProbeQuadratic(k, i) ==
    /\ i < capacity(a)
    /\ ApplyStrategy("probe", k, i,
                     Result(a, strategy_probe(a, k, hasher(k), i), NPos, FALSE, "none"))
    /\ UNCHANGED expected

NextQuadratic ==
    \/ \E k \in QuadraticKeys : InsertQuadratic(k)
    \/ \E k \in {0, DefaultCapacity}, i \in 0..(DefaultCapacity - 1) :
           ProbeQuadratic(k, i)

SpecQuadratic == InitQuadratic /\ [][NextQuadratic]_vars

\* The keys given to the table with DoubleHashing: the keys up to 33 whose
\* first bucket at the default capacity is bucket 0 or bucket 1.
DoubleKeys ==
    {k \in 0..(2 * DefaultCapacity + 1) : k % DefaultCapacity <= 1}

\* OpenAddressingHashTable<int, T, std::hash<int>, std::equal_to<int>,
\* DoubleHashing<int>> t(16, hash, equal, DoubleHashing<int>())
InitDouble ==
    /\ AllowDuplicates = FALSE
    /\ b = <<>>
    /\ halted = FALSE
    /\ expected = Nothing
    /\ a = NewTableWith(DefaultCapacity, "DoubleHashing")
    /\ last = [op |-> "construct", key |-> NoKey, val |-> DefaultCapacity,
               cap |-> DefaultCapacity, ret |-> 0, it |-> NPos,
               threw |-> FALSE, fault |-> "none"]

InsertDouble(k) ==
    ApplyStrategy("insert", k, NoVal, insert(a, k, NoVal)) /\ UNCHANGED expected

EraseDouble(k) ==
    ApplyStrategy("erase", k, NoVal, erase(a, k)) /\ UNCHANGED expected

\* _probing->probe(k, _hash(k), i, _buckets.size()): ret is the index.
ProbeDouble(k, i) ==
    /\ i < capacity(a)
    /\ ApplyStrategy("probe", k, i,
                     Result(a, strategy_probe(a, k, hasher(k), i), NPos, FALSE, "none"))
    /\ UNCHANGED expected

NextDouble ==
    \/ \E k \in DoubleKeys : InsertDouble(k)
    \/ \E k \in DoubleKeys : EraseDouble(k)
    \/ \E k \in DoubleKeys, i \in 0..(DefaultCapacity - 1) : ProbeDouble(k, i)

SpecDouble == InitDouble /\ [][NextDouble]_vars

(* ------------------------------- claims ------------------------------- *)

\* find(k) returns an iterator other than end().
Found(t, k) == find(t, k).fault = "none" /\ find(t, k).ret = 1

\* The mapped value of the entry find(k) returns.
ValueOf(t, k) == t.buckets[find(t, k).it + 1].val

\* The OCCUPIED buckets of t, as (index, key, value) triples.
Occupied(t) ==
    {<<i - 1, t.buckets[i].key, t.buckets[i].val>> :
        i \in {j \in 1..capacity(t) : is_occupied(t.buckets[j])}}

\* Some OCCUPIED bucket of t holds k.
Stored(t, k) == \E e \in Occupied(t) : e[2] = k

Tables == {a} \cup {b[i] : i \in 1..Len(b)}

\* C1 (as claimed): on every reachable table, for every key k that no
\* bucket of it holds and every value v, after insert(k, v) find(k) yields
\* an entry whose value is v and contains(k) is true.
C1_RoundTrip ==
    \A t \in Tables : \A k \in Keys, v \in Values :
        ~Stored(t, k) =>
            LET r == insert(t, k, v) IN
            /\ r.fault = "none"
            /\ Found(r.t, k)
            /\ ValueOf(r.t, k) = v
            /\ contains(r.t, k).ret = 1

\* The copy holds what the source holds: every key found in the source is
\* found in the copy with an equal value, the sizes are equal, and the copy
\* compares equal to the source.
SameContent(source, copy) ==
    /\ \A k \in Keys :
          Found(source, k) =>
              Found(copy, k) /\ ValueOf(copy, k) = ValueOf(source, k)
    /\ copy.size = source.size
    /\ equals(copy, source).ret = 1

\* C2 (as claimed): right after a copy construction or a copy assignment,
\* whatever the source holds (tombstones included), the copy holds exactly
\* the entries of the source.
C2_CopyPreservesContent ==
    /\ last.op \in {"copy_construct", "copy_assign_b"} => SameContent(a, b[1])
    /\ last.op = "copy_assign_a" => SameContent(b[1], a)

\* The calls C3 lists.
MutatingOps ==
    {"insert", "emplace", "try_emplace", "insert_or_assign", "operator[]",
     "erase", "clear", "reserve", "max_load_factor", "construct_list"}

\* C3 (as claimed): after every mutating operation that ran to its end on a
\* table of capacity >= 1, size / capacity <= max_load_factor.
C3_LoadFactorBound ==
    (last.op \in MutatingOps /\ last.fault = "none" /\ capacity(a) >= 1) =>
        ~Greater(load_factor(a), max_load_factor(a))

\* No two OCCUPIED buckets of t hold equal keys.
UniqueKeys(t) ==
    \A e1, e2 \in Occupied(t) : e1[2] = e2[2] => e1[1] = e2[1]

\* C4 (as claimed): without duplicates, after any sequence of public
\* operations no two OCCUPIED buckets of a table hold equal keys.
C4_KeyUniqueness ==
    ~AllowDuplicates => \A t \in Tables : UniqueKeys(t)

\* C5 (as claimed): without duplicates, for every key k that find yields,
\* erase(k) returns 1 and takes 1 off the size; afterwards find(k) yields
\* end(), contains(k) is false, and a second erase(k) returns 0 and changes
\* nothing.
C5_EraseThenLookup ==
    ~AllowDuplicates =>
        \A t \in Tables : \A k \in Keys :
            Found(t, k) =>
                LET r == erase(t, k) IN
                /\ r.ret = 1
                /\ r.t.size = t.size - 1
                /\ ~Found(r.t, k)
                /\ contains(r.t, k).ret = 0
                /\ erase(r.t, k).ret = 0
                /\ erase(r.t, k).t = r.t

\* C6: in a run of inserts and erases on a table constructed with the
\* defaults, in every state (so after each growth) every key inserted and
\* not erased since is found, with the value it was inserted with, and size
\* is the number of such keys.
C6_GrowthPreservesContent ==
    /\ \A k \in Keys :
          expected[k] # <<>> =>
              Found(a, k) /\ ValueOf(a, k) = expected[k][1]
    /\ a.size = Cardinality({k \in Keys : expected[k] # <<>>})

\* C6's case: an insert has just doubled the capacity of a table that was
\* over its threshold and held other keys, which are still found.
C6_Witness ==
    /\ last.op = "insert"
    /\ last.ret = 1
    /\ last.cap >= 2
    /\ capacity(a) = 2 * last.cap
    /\ \E k \in Keys : k # last.key /\ expected[k] # <<>> /\ Found(a, k)

\* The calls that insert without overwriting.
InsertCalls(t, k, v) == {insert(t, k, v), emplace(t, k, v), try_emplace(t, k, v)}

\* C7 (as claimed): without duplicates, insert, emplace and try_emplace of
\* a key that find yields report inserted = false at the position of the
\* existing entry, and leave size and the entry's mapped value as they were.
C7_InsertIdempotent ==
    ~AllowDuplicates =>
        \A t \in Tables : \A k \in Keys, v \in Values :
            Found(t, k) =>
                \A r \in InsertCalls(t, k, v) :
                    /\ r.fault = "none"
                    /\ r.ret = 0
                    /\ r.it # end(r.t)
                    /\ r.t.buckets[r.it + 1].key = k
                    /\ r.t.buckets[r.it + 1].val = ValueOf(t, k)
                    /\ r.t.size = t.size

\* The insertion probe for k, run after check_load_and_rehash as every
\* insertion does, finds no EMPTY bucket, no DELETED bucket and no equal key.
Exhausted(t, k) ==
    LET t1 == check_load_and_rehash(t) IN
    /\ ~NullProbe(t1)
    /\ probe_insert_slot(t1, k, hasher(k)) =
           [index |-> capacity(t1), inserted |-> FALSE]

\* C8 (as claimed): when the probe is exhausted, every insertion call (and
\* operator[]) returns the not-inserted outcome with the end position, reads
\* no bucket outside [0, capacity), and leaves size and the entries as they
\* were.
C8_ExhaustionReported ==
    \A t \in Tables : \A k \in Keys, v \in Values :
        Exhausted(t, k) =>
            /\ \A r \in InsertCalls(t, k, v) \cup {insert_or_assign(t, k, v)} :
                  /\ r.fault = "none"
                  /\ r.ret = 0
                  /\ r.it = end(r.t)
                  /\ r.t.size = t.size
                  /\ Occupied(r.t) = Occupied(t)
            /\ LET r == subscript(t, k) IN
                  /\ r.fault = "none"
                  /\ r.t.size = t.size
                  /\ Occupied(r.t) = Occupied(t)

\* C9 (as claimed): on every table, of capacity 0 too, for a key no bucket
\* holds, find, contains, count and erase read no bucket outside
\* [0, capacity) and return end() / false / 0 / 0, erase changing nothing.
C9_LookupsNeverFail ==
    \A t \in Tables : \A k \in Keys :
        ~Stored(t, k) =>
            /\ find(t, k) = Result(t, 0, end(t), FALSE, "none")
            /\ contains(t, k) = Result(t, 0, NPos, FALSE, "none")
            /\ count(t, k) = Result(t, 0, NPos, FALSE, "none")
            /\ erase(t, k) = Result(t, 0, NPos, FALSE, "none")

\* C10 (as claimed): with linear probing, whatever threshold the setter
\* accepted, on a table of capacity >= 1 the insert of a key no bucket holds
\* reports inserted = true.
C10_GrowthPreventsExhaustion ==
    \A t \in Tables : \A k \in Keys, v \in Values :
        (capacity(t) >= 1 /\ t.probing = "LinearProbing" /\ ~Stored(t, k)) =>
            insert(t, k, v).ret = 1

\* The positions a loop  for (it = first; it != second; ++it)  visits.
Enumerated(t, first, second) ==
    {i \in first..(second - 1) : is_occupied(t.buckets[i + 1])}

\* The positions of the OCCUPIED buckets of t that hold k.
PositionsOf(t, k) == {e[1] : e \in {x \in Occupied(t) : x[2] = k}}

\* C11 (as claimed): in duplicates mode, in every state of a run of inserts
\* and erases, for every key k the range [first, second) that equal_range(k)
\* returns visits exactly the OCCUPIED buckets that hold k.
C11_EqualRangeExact ==
    AllowDuplicates =>
        \A k \in Keys :
            LET r == equal_range(a, k) IN
            /\ r.fault = "none"
            /\ Enumerated(a, r.it, r.ret) = PositionsOf(a, k)

\* The sum of expected[k][1] over the keys of S.
RECURSIVE SumExpected(_)
SumExpected(S) ==
    IF S = {} THEN 0
    ELSE LET k == CHOOSE x \in S : TRUE
         IN  expected[k][1] + SumExpected(S \ {k})

\* C12: in duplicates mode, in every state of a run of inserts and erases
\* (growth included), for every key k count(k) is the number of successful
\* inserts of k less the number of its erases, size is the sum of these over
\* all keys, and while that number is positive erase(k) returns 1 and
\* removes exactly one entry, an entry of k.
C12_DuplicatesMultiplicity ==
    AllowDuplicates =>
        /\ \A k \in Keys :
              /\ count(a, k).ret = expected[k][1]
              /\ expected[k][1] > 0 =>
                    LET r == erase(a, k) IN
                    /\ r.ret = 1
                    /\ r.t.size = a.size - 1
                    /\ count(r.t, k).ret = expected[k][1] - 1
                    /\ \A j \in Keys \ {k} : count(r.t, j).ret = count(a, j).ret
        /\ a.size = SumExpected(Keys)

\* C12's case: an insert of k has just doubled the capacity of a table that
\* holds k more than once, after an erase of k, and another key is held too.
C12_Witness ==
    /\ AllowDuplicates
    /\ last.op = "insert"
    /\ last.ret = 1
    /\ last.cap >= 2
    /\ capacity(a) = 2 * last.cap
    /\ expected[last.key][1] >= 2
    /\ expected[last.key][2] = 1
    /\ \E k \in Keys : k # last.key /\ expected[k][1] >= 1

\* C13 (as claimed): on every reachable table, for every new_capacity (0
\* and values below the size too), after rehash(new_capacity) the capacity
\* is new_capacity, no bucket is DELETED, size is as before, and every key
\* found before is found with the same value.
C13_RehashPreservesContent ==
    \A t \in Tables : \A n \in 0..MaxCap :
        LET r == rehash_call(t, n) IN
        /\ capacity(r.t) = n
        /\ \A i \in 1..n : ~is_deleted(r.t.buckets[i])
        /\ r.t.size = t.size
        /\ \A k \in Keys :
              Found(t, k) => Found(r.t, k) /\ ValueOf(r.t, k) = ValueOf(t, k)

\* The second batch has begun: all N keys of the first are erased.
SecondBatch ==
    /\ Cardinality(expected.first) = expected.n
    /\ expected.erased = expected.first

\* C14: once the N keys of the first batch are erased, every insert of the
\* second batch has reported inserted = true and the next one will, the
\* keys of the second batch are found, size is their number, and the
\* capacity is what it was when the second batch began.
C14_TombstoneReclaim ==
    SecondBatch =>
        /\ expected.ok
        /\ capacity(a) = expected.cap
        /\ a.size = Cardinality(expected.second)
        /\ \A k \in expected.second : Found(a, k)
        /\ Cardinality(expected.second) < expected.n =>
              \A k \in BatchKeys \ (expected.first \cup expected.second) :
                  /\ insert(a, k, NoVal).ret = 1
                  /\ capacity(insert(a, k, NoVal).t) = expected.cap

\* C14's case: both batches are complete on a table of capacity 2 or more
\* in which, the second batch begun, no bucket was EMPTY.
C14_Witness ==
    /\ SecondBatch
    /\ expected.n >= 2
    /\ expected.n = expected.cap
    /\ Cardinality(expected.second) = expected.n
    /\ last.op = "insert"
    /\ last.ret = 1

\* C15: after every public operation that the program survives, on every
\* table (the source and the target of a copy, a move or a swap too),
\* size() is the number of OCCUPIED buckets and empty() holds exactly when
\* that number is 0.
C15_LiveCounter ==
    ~halted =>
        \A t \in Tables :
            /\ t.size = Cardinality(Occupied(t))
            /\ empty(t) <=> Occupied(t) = {}

\* C15's case: a move has just taken two or more entries out of a into b.
C15_Witness ==
    /\ ~halted
    /\ last.op \in {"move_construct", "move_assign_b"}
    /\ b # <<>>
    /\ Cardinality(Occupied(b[1])) >= 2
    /\ capacity(a) = 0

\* The (key, value) pairs t holds.
Content(t) == {<<e[2], e[3]>> : e \in Occupied(t)}

\* C16: without duplicates, for two tables each worked on by inserts,
\* erases, insert_or_assign, clear and reserve, a == b is true exactly when
\* both hold the same keys with equal values; a == b and b == a agree, and
\* a == a and b == b are true.
C16_WholeTableEquality ==
    (~AllowDuplicates /\ ~halted /\ b # <<>>) =>
        /\ equals(a, b[1]).fault = "none"
        /\ equals(a, b[1]).ret = 1 <=> Content(a) = Content(b[1])
        /\ equals(b[1], a) = [equals(a, b[1]) EXCEPT !.t = b[1]]
        /\ equals(a, a).ret = 1
        /\ equals(b[1], b[1]).ret = 1

\* C16's case: a == b has just returned true for two tables that hold an
\* entry, differ in capacity, and of which one has a DELETED bucket.
C16_Witness ==
    /\ ~halted
    /\ last.op = "operator=="
    /\ last.ret = 1
    /\ a.size >= 1
    /\ capacity(a) # capacity(b[1])
    /\ \E i \in 1..capacity(a) : is_deleted(a.buckets[i])

\* C17 (as claimed): on every table, at(k) for a key no bucket holds throws
\* the key-not-found error and leaves the table as it was; at(k) for a key
\* that find yields returns that entry's mapped value.
C17_AtAbsentKey ==
    \A t \in Tables : \A k \in Keys :
        /\ ~Stored(t, k) => at(t, k) = Result(t, 0, NPos, TRUE, "none")
        /\ Found(t, k) => at(t, k) = Result(t, ValueOf(t, k), NPos, FALSE, "none")

\* A float held as n / MlfDen lies in (0, 1].
InUnitInterval(n) == n # NaN /\ 0 < n /\ n <= MlfDen

\* C18 (as claimed): the setter called with a value outside (0, 1] throws
\* the invalid-argument error and leaves the table as it was, and
\* max_load_factor lies in (0, 1] in every reachable state.
C18_InvalidMaxLoadFactor ==
    \A t \in Tables :
        /\ \A n \in MlfInputs :
              ~InUnitInterval(n) =>
                  set_max_load_factor(t, n) = Result(t, 0, NPos, TRUE, "none")
        /\ InUnitInterval(t.mlf)

\* C19 (as claimed): without duplicates, insert_or_assign(k, v) of a key
\* that find yields reports inserted = false, makes find(k) yield v, and
\* leaves size and every other entry as they were; of a key no bucket holds
\* it reports inserted = true, makes find(k) yield v and adds 1 to size.
C19_InsertOrAssign ==
    ~AllowDuplicates =>
        \A t \in Tables : \A k \in Keys, v \in Values :
            LET r == insert_or_assign(t, k, v) IN
            /\ Found(t, k) =>
                  /\ r.fault = "none"
                  /\ r.ret = 0
                  /\ Found(r.t, k) /\ ValueOf(r.t, k) = v
                  /\ r.t.size = t.size
                  /\ {e \in Content(r.t) : e[1] # k} = {e \in Content(t) : e[1] # k}
                  /\ Cardinality(PositionsOf(r.t, k)) = 1
            /\ ~Stored(t, k) =>
                  /\ r.fault = "none"
                  /\ r.ret = 1
                  /\ Found(r.t, k) /\ ValueOf(r.t, k) = v
                  /\ r.t.size = t.size + 1

\* C20 (as claimed): operator[](k) for a key no bucket holds creates one
\* entry for k with the default mapped value, adds 1 to size and returns
\* that entry's value; for a key that find yields it returns the existing
\* value and leaves size and the entries as they were.
C20_MapStyleAccess ==
    \A t \in Tables : \A k \in Keys :
        LET r == subscript(t, k) IN
        /\ ~Stored(t, k) =>
              /\ r.fault = "none"
              /\ r.t.size = t.size + 1
              /\ Content(r.t) = Content(t) \cup {<<k, NoVal>>}
              /\ r.ret = NoVal
        /\ Found(t, k) =>
              /\ r.fault = "none"
              /\ r.ret = ValueOf(t, k)
              /\ r.t.size = t.size
              /\ Content(r.t) = Content(t)

\* The table holds no bucket and no probing strategy: nothing it would
\* release on destruction.
OwnsNothing(t) == capacity(t) = 0 /\ t.probing = "nullptr"

\* C21: a move out of any table s, by construction or by assignment to any
\* table d, gives the target the buckets (so the entries and the capacity),
\* the size, max_load_factor and the probing strategy of s; the source is
\* left with size 0, a traversal of it visits nothing, and it keeps no
\* bucket and no probing strategy of those the target now holds.  After a
\* move in a run, the source is in that state.
C21_MoveTransfersOwnership ==
    /\ \A s \in Tables :
          /\ \A d \in {move_construct(s)} \cup {move_assign(x, s) : x \in Tables} :
                /\ d.buckets = s.buckets
                /\ d.size = s.size
                /\ d.mlf = s.mlf
                /\ d.probing = s.probing
          /\ moved_from(s).size = 0
          /\ traverse(moved_from(s)) = <<>>
          /\ OwnsNothing(moved_from(s))
    /\ last.op \in {"move_construct", "move_assign_b"} =>
          a.size = 0 /\ traverse(a) = <<>> /\ OwnsNothing(a)
    /\ last.op = "move_assign_a" =>
          b[1].size = 0 /\ traverse(b[1]) = <<>> /\ OwnsNothing(b[1])

\* C21's case: a = std::move(b) has just given a a table that holds an
\* entry and a DELETED bucket.
C21_Witness ==
    /\ last.op = "move_assign_a"
    /\ a.size >= 1
    /\ \E i \in 1..capacity(a) : is_deleted(a.buckets[i])
    /\ a.probing = "LinearProbing"
    /\ OwnsNothing(b[1])

\* C22: on every table a traversal from begin() to end() visits the
\* positions of the OCCUPIED buckets, each once, in increasing order, and
\* no other position; their number is size(); begin() = end() exactly when
\* empty(); and a traversal made in a run returned size() entries.
C22_Iteration ==
    /\ \A t \in Tables :
          LET visited == traverse(t) IN
          /\ \A i, j \in 1..Len(visited) : i < j => visited[i] < visited[j]
          /\ {visited[i] : i \in 1..Len(visited)} = {e[1] : e \in Occupied(t)}
          /\ Len(visited) = t.size
          /\ begin(t) = end(t) <=> empty(t)
    /\ (last.op = "iterate" /\ last.fault = "none") => last.ret = a.size

\* C22's case: a traversal has just visited two or more entries of a table
\* whose first bucket is not OCCUPIED and which has a DELETED bucket.
C22_Witness ==
    /\ last.op = "iterate"
    /\ last.ret >= 2
    /\ last.it >= 1
    /\ \E i \in 1..capacity(a) : is_deleted(a.buckets[i])

\* C23 (as claimed): on every reachable table, reserve(n) with
\* n <= capacity changes nothing; with n > capacity it makes the capacity n,
\* keeps every key found before found with the same value, and leaves no
\* DELETED bucket; the capacity never decreases.
C23_ReserveGrowOnly ==
    \A t \in Tables : \A n \in 0..MaxCap :
        LET r == reserve(t, n) IN
        /\ r.fault = "none"
        /\ n <= capacity(t) => r.t = t
        /\ n > capacity(t) =>
              /\ capacity(r.t) = n
              /\ \A k \in Keys :
                    Found(t, k) =>
                        Found(r.t, k) /\ ValueOf(r.t, k) = ValueOf(t, k)
              /\ \A i \in 1..n : ~is_deleted(r.t.buckets[i])
        /\ capacity(r.t) >= capacity(t)

\* C24: on every reachable table, after clear() every bucket is EMPTY, size
\* is 0, capacity and max_load_factor are as before, and every key a bucket
\* held is not found and can be inserted again; after a clear() in a run the
\* table is in that state.
C24_Clear ==
    /\ \A t \in Tables :
          LET r == clear(t) IN
          /\ r.fault = "none"
          /\ \A i \in 1..capacity(r.t) : is_empty(r.t.buckets[i])
          /\ r.t.size = 0
          /\ capacity(r.t) = capacity(t)
          /\ r.t.mlf = t.mlf
          /\ \A k \in Keys :
                Stored(t, k) =>
                    /\ find(r.t, k) = Result(r.t, 0, end(r.t), FALSE, "none")
                    /\ \A v \in Values :
                          /\ insert(r.t, k, v).ret = 1
                          /\ Found(insert(r.t, k, v).t, k)
    /\ last.op = "clear" =>
          /\ \A i \in 1..capacity(a) : is_empty(a.buckets[i])
          /\ a.size = 0
          /\ capacity(a) = last.cap

\* C24's case: clear() has just been called on a table of capacity 2 or
\* more whose max_load_factor had been changed.
C24_Witness ==
    /\ last.op = "clear"
    /\ capacity(a) >= 2
    /\ a.mlf \notin {DefaultMlf, NaN}
    /\ \A i \in 1..capacity(a) : is_empty(a.buckets[i])

\* The attempts of k's probe sequence that land on bucket index.
AttemptsAt(t, k, index) ==
    {j \in 0..(capacity(t) - 1) : probe(k, hasher(k), j, capacity(t)) = index}

\* No bucket at an attempt before attempt j of k's probe sequence is EMPTY.
NoEmptyBefore(t, k, j) ==
    \A i \in 0..(j - 1) :
        ~is_empty(t.buckets[probe(k, hasher(k), i, capacity(t)) + 1])

\* C25 (as claimed): in every reachable state of every table (copies
\* included), for each OCCUPIED bucket, holding k at attempt j of k's probe
\* sequence, no bucket at attempts 0..j-1 is EMPTY; hence every key a bucket
\* holds is found.
C25_ProbeChain ==
    \A t \in Tables :
        /\ \A e \in Occupied(t) :
              \A j \in AttemptsAt(t, e[2], e[1]) : NoEmptyBefore(t, e[2], j)
        /\ t.probing = "LinearProbing" =>
              \A k \in Keys : Stored(t, k) => Found(t, k)

\* The least element of a non-empty set of numbers.
Min(S) == CHOOSE x \in S : \A y \in S : x <= y

\* The bucket index at attempt i of k's probe sequence.
ProbeAt(t, k, i) == probe(k, hasher(k), i, capacity(t))

\* The first attempt of k's probe sequence that meets an EMPTY bucket,
\* capacity(t) when none does.
FirstEmptyAttempt(t, k) ==
    Min({i \in 0..(capacity(t) - 1) : is_empty(t.buckets[ProbeAt(t, k, i) + 1])}
        \cup {capacity(t)})

\* The attempts before the first EMPTY bucket that meet a DELETED bucket.
DeletedBeforeEmpty(t, k) ==
    {i \in 0..(FirstEmptyAttempt(t, k) - 1) :
        is_deleted(t.buckets[ProbeAt(t, k, i) + 1])}

\* t with (k, v) written into bucket index and nothing else changed.
WrittenAt(t, index, k, v) ==
    [t EXCEPT !.buckets[index + 1] = set(k, v), !.size = @ + 1]

\* C26: for every reachable table as the growth check of an insertion
\* leaves it, and every key k: when no bucket holds k and k's probe
\* sequence meets a DELETED bucket before its first EMPTY bucket (or before
\* the attempts run out), insert writes into the first such DELETED bucket
\* and changes no other bucket; when it meets no DELETED bucket before its
\* first EMPTY bucket it writes into that EMPTY bucket; and, without
\* duplicates, when it meets a bucket holding k after a DELETED bucket the
\* insert reports inserted = false and writes nothing.
C26_TombstoneReuse ==
    \A t \in Tables : \A k \in Keys, v \in Values :
        LET t1 == check_load_and_rehash(t)
            r == insert(t, k, v)
            deleted == DeletedBeforeEmpty(t1, k)
            first_empty == FirstEmptyAttempt(t1, k)
        IN  (capacity(t1) >= 1 /\ ~NullProbe(t1)) =>
            /\ (~Stored(t1, k) /\ deleted # {}) =>
                  /\ r.ret = 1
                  /\ r.t = WrittenAt(t1, ProbeAt(t1, k, Min(deleted)), k, v)
            /\ (~Stored(t1, k) /\ deleted = {} /\ first_empty < capacity(t1)) =>
                  /\ r.ret = 1
                  /\ r.t = WrittenAt(t1, ProbeAt(t1, k, first_empty), k, v)
            /\ (~AllowDuplicates /\ Found(t1, k) /\ deleted # {}) =>
                  /\ r.ret = 0
                  /\ r.t = t1

\* C26's case: the table holds an entry and, for some key no bucket holds,
\* the probe sequence meets a DELETED bucket and then an EMPTY one; insert
\* writes into the DELETED bucket and leaves the EMPTY one.
C26_Witness ==
    \E k \in Keys :
        /\ a.size >= 1
        /\ a = check_load_and_rehash(a)
        /\ ~Stored(a, k)
        /\ DeletedBeforeEmpty(a, k) = {0}
        /\ FirstEmptyAttempt(a, k) = 1
        /\ is_occupied(insert(a, k, NoVal).t.buckets[ProbeAt(a, k, 0) + 1])
        /\ is_empty(insert(a, k, NoVal).t.buckets[ProbeAt(a, k, 1) + 1])

\* The calls that work on the buckets of a table in place: every call on
\* one table but clear, rehash and reserve.
InPlaceOps ==
    {"insert", "emplace", "try_emplace", "insert_or_assign", "operator[]",
     "erase", "find", "contains", "count", "at", "max_load_factor", "iterate"}

\* On every reachable table an erase(k) that returns 1 turns exactly one
\* bucket, an OCCUPIED one holding k, into a DELETED one, takes 1 off the
\* size and changes nothing else; one that returns 0 changes nothing.
EraseLeavesTombstone ==
    \A t \in Tables : \A k \in Keys :
        LET r == erase(t, k) IN
        /\ (r.fault = "none" /\ r.ret = 1) =>
              \E i \in 1..capacity(t) :
                  /\ is_occupied(t.buckets[i]) /\ t.buckets[i].key = k
                  /\ is_deleted(r.t.buckets[i])
                  /\ capacity(r.t) = capacity(t)
                  /\ \A j \in 1..capacity(t) \ {i} :
                        r.t.buckets[j] = t.buckets[j]
                  /\ r.t.size = t.size - 1
                  /\ r.t.mlf = t.mlf
                  /\ r.t.probing = t.probing
        /\ (r.fault = "none" /\ r.ret = 0) => r.t = t

\* A call that works in place and does not rebuild the table (the capacity
\* is as before) leaves no bucket EMPTY that was OCCUPIED or DELETED.
NoBucketEmptied ==
    (last'.op \in InPlaceOps /\ capacity(a') = capacity(a)) =>
        \A i \in 1..capacity(a) :
            ~is_empty(a.buckets[i]) => ~is_empty(a'.buckets[i])

\* C27: a successful erase(k) changes exactly one bucket, from OCCUPIED to
\* DELETED, and nothing else but the size; and no call other than clear and
\* the rebuilds (rehash, reserve, growth) turns a DELETED or OCCUPIED bucket
\* of the table it is made on into an EMPTY one.
C27_EraseLeavesTombstone ==
    []EraseLeavesTombstone /\ [][NoBucketEmptied]_vars

\* C27's case: an erase has just removed an entry of a table that holds
\* another entry still.
C27_Witness ==
    /\ last.op = "erase"
    /\ last.ret = 1
    /\ last.fault = "none"
    /\ a.size >= 1
    /\ \E i \in 1..capacity(a) : is_deleted(a.buckets[i])

\* C28 (as claimed): without duplicates, insert, emplace and try_emplace of
\* a key that find yields leave the table as it was: the capacity, every
\* bucket, size and max_load_factor.
C28_DuplicateInsertNoOp ==
    ~AllowDuplicates =>
        \A t \in Tables : \A k \in Keys, v \in Values :
            Found(t, k) => \A r \in InsertCalls(t, k, v) : r.t = t

\* The insertion family.
InsertionOps ==
    {"insert", "emplace", "try_emplace", "insert_or_assign", "operator[]"}

\* A call of the insertion family that changes the capacity doubles it and
\* leaves no bucket DELETED.
GrowthStep ==
    (last'.op \in InsertionOps /\ capacity(a') # capacity(a)) =>
        /\ capacity(a') = 2 * capacity(a)
        /\ \A i \in 1..capacity(a') : ~is_deleted(a'.buckets[i])

\* C29: every change of capacity made by a call of the insertion family
\* sets the capacity to twice what it was (so the call grew once), and
\* right after it no bucket is DELETED.
C29_GrowthDoubles ==
    [][GrowthStep]_vars

\* C29's case: an insert has just doubled the capacity of a table of
\* capacity 2 that held one entry, and added the second.
C29_Witness ==
    /\ last.op = "insert"
    /\ last.fault = "none"
    /\ last.cap = 2
    /\ capacity(a) = 4
    /\ last.ret = 1
    /\ a.size = 2

\* The indices LinearProbing::probe returns for attempts 0..capacity-1.
Probed(hash, n) == {probe(NoKey, hash, i, n) : i \in 0..(n - 1)}

\* C30 (as claimed): for every hash value and every capacity >= 1 the
\* attempts 0..capacity-1 of LinearProbing::probe return capacity distinct
\* indices in [0, capacity); and the insert of a key no bucket holds
\* succeeds when some bucket is EMPTY or DELETED and fails only when every
\* bucket is OCCUPIED.
C30_LinearProbingCovers ==
    /\ \A n \in 1..MaxCap : \A k \in SignedKeys :
          Probed(hasher(k), n) = 0..(n - 1)
    /\ \A k \in SignedKeys :
          (capacity(a) >= 1 /\ ~Stored(a, k)) =>
              /\ (\E i \in 1..capacity(a) : ~is_occupied(a.buckets[i]))
                    => insert(a, k, NoVal).ret = 1
              /\ insert(a, k, NoVal).ret = 0
                    => \A i \in 1..capacity(a) : is_occupied(a.buckets[i])

\* The indices QuadraticProbing::probe returns for attempts 0..capacity-1.
ProbedQuadratic(hash, n) ==
    {QuadraticProbing_probe(NoKey, hash, i, n) : i \in 0..(n - 1)}

\* With QuadraticProbing, the insert of a key no bucket holds succeeds when
\* some bucket of the table is not OCCUPIED.
QuadraticInsertSucceeds ==
    \A k \in QuadraticKeys :
        (~Stored(a, k) /\ \E i \in 1..capacity(a) : ~is_occupied(a.buckets[i]))
            => insert(a, k, NoVal).ret = 1

\* C31 (as claimed): with c1 = 1 and c2 = 3, for every hash value and every
\* capacity reached from 16 by doubling, the attempts 0..capacity-1 of
\* QuadraticProbing::probe return capacity distinct indices in
\* [0, capacity); so the insert of a key no bucket holds succeeds whenever
\* some bucket is not OCCUPIED.
C31_QuadraticProbingCovers ==
    /\ \A n \in DoubledCapacities : \A k \in QuadraticKeys \cup SignedKeys :
          ProbedQuadratic(hasher(k), n) = 0..(n - 1)
    /\ QuadraticInsertSucceeds

\* The indices DoubleHashing::probe returns for key k, attempts
\* 0..capacity-1.
ProbedDouble(k, n) ==
    {DoubleHashing_probe(k, hasher(k), i, n) : i \in 0..(n - 1)}

\* The step of DoubleHashing::probe lies in [1, 97] for every key.
StepInRange ==
    \A k \in DoubleKeys \cup SignedKeys : hash2(k) \in 1..SecondaryPrime

\* With DoubleHashing, the insert of a key no bucket holds succeeds when
\* some bucket of the table is not OCCUPIED.
DoubleInsertSucceeds ==
    \A k \in DoubleKeys :
        (~Stored(a, k) /\ \E i \in 1..capacity(a) : ~is_occupied(a.buckets[i]))
            => insert(a, k, NoVal).ret = 1

\* C32 (as claimed): with the secondary constant 97, for every key the step
\* lies in [1, 97] and is non-zero modulo the capacity, and for every
\* capacity reached from 16 by doubling (the capacity of the table among
\* them) the attempts 0..capacity-1 of DoubleHashing::probe return capacity
\* distinct indices in [0, capacity); two consecutive attempts never return
\* the same index.
C32_DoubleHashingCovers ==
    /\ StepInRange
    /\ \A n \in DoubledCapacities \cup {capacity(a)} :
       \A k \in DoubleKeys \cup SignedKeys :
          /\ hash2(k) % n # 0
          /\ ProbedDouble(k, n) = 0..(n - 1)
          /\ \A i \in 0..(n - 2) :
                DoubleHashing_probe(k, hasher(k), i, n)
                    # DoubleHashing_probe(k, hasher(k), i + 1, n)

=============================================================================
